---- MODULE Spec2Model ----
(***************************************************************************)
(* A model of pyEMA (src/pyEMA/pyEMA.py): the class lscf (construction,    *)
(* get_poles, the stabilisation chart's pick/unpick handler,               *)
(* select_closest_poles, lsfd, FRF_reconstruct) and the module functions   *)
(* redundant_values and stabilisation.                                     *)
(*                                                                         *)
(* Numbers.  Frequencies, dampings and bounds are integers on a grid that  *)
(* is coarser than the 1e-3 Hz precision of redundant_values.  A pole is   *)
(* kept as its magnitude, its real part and the sign of its imaginary      *)
(* part.  A quantity the least-squares solvers produce is kept as the      *)
(* exact rational the normal equations define (<<numerator, denominator>>) *)
(* or, for lsfd, as a record of the data it was computed from.             *)
(*                                                                         *)
(* Indices are the 0-based indices of the Python code; Seq0(s, i) reads    *)
(* element i of a Python list that is kept as a TLA+ sequence.             *)
(***************************************************************************)
EXTENDS Integers, Sequences, FiniteSets, TLC

VARIABLES
    pc,             \* "new" (before lscf(...)), "built", "failed" (constructor raised)
    args,           \* the arguments of lscf(...)
    attrs,          \* names of the instance attributes that exist
    lower, upper,   \* self.lower, self.upper
    freq,           \* self.freq
    frf,            \* self.frf as its shape [rows, cols]; [rows |-> 0, cols |-> 0] for the int 0
    pol_order_high, \* self.pol_order_high
    sampling_time,  \* self.sampling_time as <<numerator, denominator>>
    all_poles,      \* self.all_poles: per order-index, the list of poles
    pole_freq,      \* self.pole_freq
    pole_xi,        \* self.pole_xi
    pole_ind,       \* self.pole_ind: list of <<order-index, within-order-index>>
    nat_freq,       \* self.nat_freq
    nat_xi,         \* self.nat_xi
    sel_kind,       \* "unset", "list" (Python lists) or "array" (numpy arrays)
    f_stable,       \* self.f_stable
    A, LR, UR,      \* self.A, self.LR, self.UR
    poles,          \* self.poles
    H,              \* self.H
    chart,          \* TRUE while stab_chart's mainloop runs
    shift_is_held,  \* self.shift_is_held
    sel_ind,        \* the local sel_ind of the last select_closest_poles call
    op,             \* the operation of the last step and its arguments
    exc,            \* the exception that escaped the last operation, "" if none
    ret             \* what the last operation returned

vars == <<pc, args, attrs, lower, upper, freq, frf, pol_order_high,
          sampling_time, all_poles, pole_freq, pole_xi, pole_ind, nat_freq,
          nat_xi, sel_kind, f_stable, A, LR, UR, poles, H, chart,
          shift_is_held, sel_ind, op, exc, ret>>

objVars == <<attrs, lower, upper, freq, frf, pol_order_high, sampling_time>>
poleVars == <<all_poles, pole_freq, pole_xi>>
selVars == <<pole_ind, nat_freq, nat_xi, sel_kind>>
reconVars == <<A, LR, UR, poles>>

----------------------------------------------------------------------------
(* Bounds of the model *)

MaxHz == 3          \* frequencies and bounds given to the constructor: 0..MaxHz
MaxBins == 3        \* length of the frequency vector given to the constructor
NumOutputs == 2     \* rows of the FRF matrix
MaxOrder == 3       \* pol_order_high of the analysed objects: 1..MaxOrder
MaxSel == 2         \* picks in one stab_chart session before the user stops picking
MaxTargets == 2     \* length of approx_nat_freq
MaxVecLen == 4      \* length of the vectors given to redundant_values
MaxVecVal == 3      \* entries of the vectors given to redundant_values: 0..MaxVecVal
MaxWindow == 420    \* f_window given to select_closest_poles: 1..MaxWindow

----------------------------------------------------------------------------
(* Python and numpy helpers *)

Abs(x) == IF x < 0 THEN -x ELSE x

Min2(a, b) == IF a < b THEN a ELSE b

Seq0(s, i) == s[i + 1]

\* the list s with every element computed (once)
List(s) == s \o <<>>

\* element [r, c] of a 2-D array kept as the list of its rows
At(T, r, c) == T[r + 1][c + 1]

\* np.argmin over a 1-D array: the first index of the smallest value
ArgMin(s) ==
    LET t == List(s)
    IN  CHOOSE i \in 0..(Len(t) - 1) :
            /\ \A j \in 0..(Len(t) - 1) : Seq0(t, i) <= Seq0(t, j)
            /\ \A j \in 0..(i - 1) : Seq0(t, j) > Seq0(t, i)

\* np.abs(s - x)
AbsDiff(s, x) == [k \in 1..Len(s) |-> Abs(s[k] - x)]

\* s[:stop] for stop >= 0
SliceTo(s, stop) == SubSeq(s, 1, Min2(stop, Len(s)))

\* len(range(n)[start:stop]) with Python's negative indices
SliceLen(n, start, stop) ==
    LET norm(i) == IF i < 0 THEN (IF n + i < 0 THEN 0 ELSE n + i)
                   ELSE Min2(i, n)
        d == norm(stop) - norm(start)
    IN  IF d < 0 THEN 0 ELSE d

NoRet == [kind |-> "none"]

----------------------------------------------------------------------------
(* lscf.__init__ *)

ArgSet == [lower : -1..MaxHz, upper : 0..MaxHz,
           freq : UNION {[1..n -> 0..MaxHz] : n \in 0..MaxBins},
           frf_cols : 0..MaxBins,
           given : BOOLEAN, pyfrf : BOOLEAN, dt_given : BOOLEAN,
           pol_order_high : -1..1]

cutoff_ind_incl(a) == ArgMin(AbsDiff(a.freq, a.upper)) + 1

cutoff_ind(a) == ArgMin(AbsDiff(a.freq, a.upper))

\* the exception __init__ raises for the arguments a, "" if it returns
InitExc(a) ==
    IF a.lower < 0 THEN "lower must be positive or equal to zero"
    ELSE IF a.upper < a.lower THEN "upper must be greater than lower"
    ELSE IF (~a.pyfrf) /\ ~a.given THEN "input arguments are not defined"
    ELSE IF (~a.pyfrf) /\ Len(a.freq) = 0 THEN "ValueError"
    ELSE IF a.pol_order_high <= 0 THEN "pol_order_high must be positive"
    ELSE IF (~a.pyfrf) /\ (~a.dt_given) /\ cutoff_ind(a) = 0 THEN "IndexError"
    ELSE ""

\* the attributes of a constructed object
InitAttrs(a) ==
    IF a.pyfrf THEN {"lower", "upper", "frf", "pol_order_high"}
    ELSE {"lower", "upper", "frf", "freq", "pol_order_high", "omega",
          "sampling_time"}

InitFreq(a) == IF a.pyfrf THEN <<>> ELSE SliceTo(a.freq, cutoff_ind(a))

InitFrf(a) ==
    IF a.pyfrf THEN [rows |-> 0, cols |-> 0]
    ELSE [rows |-> NumOutputs, cols |-> Min2(cutoff_ind(a), a.frf_cols)]

InitSamplingTime(a) ==
    IF a.pyfrf THEN <<0, 1>>
    ELSE IF a.dt_given THEN <<1, 1>>
    ELSE <<1, 2 * InitFreq(a)[Len(InitFreq(a))]>>

Unselected ==
    /\ pole_ind = <<>> /\ nat_freq = <<>> /\ nat_xi = <<>>
    /\ sel_kind = "unset"
    /\ f_stable = <<>>
    /\ A = [rows |-> 0, cols |-> 0, src |-> <<>>]
    /\ LR = <<>> /\ UR = <<>> /\ poles = <<>>
    /\ H = [rows |-> 0, cols |-> 0, src |-> <<>>]
    /\ chart = FALSE /\ shift_is_held = FALSE
    /\ sel_ind = <<>>

NoPoles == all_poles = <<>> /\ pole_freq = <<>> /\ pole_xi = <<>>

NoObject ==
    /\ attrs = {} /\ lower = 0 /\ upper = 0 /\ freq = <<>>
    /\ frf = [rows |-> 0, cols |-> 0] /\ pol_order_high = 0
    /\ sampling_time = <<0, 1>>

lscf_init ==
    /\ pc = "new"
    /\ op' = [name |-> "__init__"]
    /\ exc' = InitExc(args)
    /\ ret' = NoRet
    /\ IF InitExc(args) # ""
       THEN /\ pc' = "failed"
            /\ UNCHANGED objVars
       ELSE /\ pc' = "built"
            /\ attrs' = InitAttrs(args)
            /\ lower' = args.lower
            /\ upper' = args.upper
            /\ freq' = InitFreq(args)
            /\ frf' = InitFrf(args)
            /\ pol_order_high' = args.pol_order_high
            /\ sampling_time' = InitSamplingTime(args)
    /\ UNCHANGED <<args, poleVars, selVars, f_stable, reconVars, H, chart,
                   shift_is_held, sel_ind>>

InitBuild ==
    /\ pc = "new"
    /\ args \in ArgSet
    /\ NoObject /\ NoPoles /\ Unselected
    /\ op = [name |-> ""] /\ exc = "" /\ ret = NoRet

NextBuild == lscf_init

SpecBuild == InitBuild /\ [][NextBuild]_vars

----------------------------------------------------------------------------
(* Poles.  get_poles stores, for order-index o (polynomial order 2*(o+1)), *)
(* the 2*(o+1) roots of a real polynomial: o+1 conjugate pairs.  A pole sr *)
(* is kept as [mag, sgn, re]: |sr| and Re(sr) in units of 2*pi rad/s, and  *)
(* the sign of Im(sr).                                                     *)

PoleVals == {[mag |-> 100, sgn |-> 1, re |-> -2],
             [mag |-> 400, sgn |-> 1, re |-> -12]}

\* np.conj(p)
Conj(p) == [p EXCEPT !.sgn = -p.sgn]

\* the poles of one order from its conjugate pairs: p1, conj p1, p2, ...
PairsToPoles(ps) ==
    [k \in 1..(2 * Len(ps)) |->
        IF k % 2 = 1 THEN ps[(k + 1) \div 2] ELSE Conj(ps[k \div 2])]

\* pole tables in which every order keeps the pairs of the order below it
\* and adds one pair
NestedTables(nmax) ==
    {[o \in 1..nmax |-> PairsToPoles(SubSeq(b, 1, o))] :
        b \in [1..nmax -> PoleVals]}

\* pole tables with any pairs at any order
AllTables(nmax) ==
    {[o \in 1..nmax |-> PairsToPoles(t[o])] :
        t \in {u \in [1..nmax -> UNION {[1..k -> PoleVals] : k \in 1..nmax}] :
                  \A o \in 1..nmax : Len(u[o]) = o}}

\* dampings are kept in units of 1/XiUnit
XiUnit == 1000

\* complex_freq_to_freq_and_damp(sr): fr = sign(imag(sr)) * abs(sr),
\* xir = -real(sr) / fr, fr /= 2*pi
complex_freq_to_freq_and_damp(sr) ==
    <<[k \in 1..Len(sr) |-> sr[k].sgn * sr[k].mag],
      [k \in 1..Len(sr) |-> sr[k].sgn * ((-sr[k].re * XiUnit) \div sr[k].mag)]>>

----------------------------------------------------------------------------
(* redundant_values and stabilisation *)

\* s[idx] for an ascending list idx of 0-based indices
Take(s, keep) ==
    LET F[k \in 0..Len(s)] ==
            IF k = 0 THEN <<>>
            ELSE IF (k - 1) \in keep THEN Append(F[k - 1], s[k])
            ELSE F[k - 1]
    IN  F[Len(s)]

\* test[j] of redundant_values: how many later entries lie within prec of
\* entry j
RedundantTest_sym(omega, prec, j) ==
    Cardinality({i \in (0..(Len(omega) - 1)) \ {j} :
                    Abs(Seq0(omega, i) - Seq0(omega, j)) < prec})

RedundantTest(omega, prec, j) ==
    Cardinality({i \in (j + 1)..(Len(omega) - 1) :
                    Abs(Seq0(omega, i) - Seq0(omega, j)) < prec})

redundant_values(omega, xi, prec) ==
    LET keep == {j \in 0..(Len(omega) - 1) : RedundantTest(omega, prec, j) < 1}
    IN  <<Take(omega, keep), Take(xi, keep)>>

\* redundant_values applied to vectors of equal length
RedArgs ==
    UNION {[omega : [1..n -> 0..MaxVecVal], xi : [1..n -> 0..1],
            prec : {1, 2}] : n \in 0..MaxVecLen}

redundant_values_call ==
    /\ pc = "call"
    /\ pc' = "done"
    /\ op' = [name |-> "redundant_values"]
    /\ exc' = ""
    /\ ret' = [kind |-> "value",
               items |-> redundant_values(args.omega, args.xi, args.prec)]
    /\ UNCHANGED <<args, objVars, poleVars, selVars, f_stable, reconVars, H,
                   chart, shift_is_held, sel_ind>>

\* the absolute precision stabilisation passes to redundant_values (1e-3 Hz)
\* is below the grid step: two grid values are within it iff they are equal
StabPrec == 1

\* a Python index into an axis of the given size
PyIdx(i, size) == IF i < 0 THEN i + size ELSE i

ZeroTable(nmax) == List([r \in 1..(2 * nmax) |-> List([c \in 1..nmax |-> 0])])

\* np.abs((x - prev) / prev) < err for err = <<num, den>>; division by a
\* zero prev gives inf or nan, which is not below err
WithinRel(x, prev, err) ==
    /\ prev # 0
    /\ Abs(x - prev) * err[2] < err[1] * Abs(prev)

\* one column of a table replaced in its first Len(vals) rows
SetColumn(T, c, vals) ==
    List([r \in 1..Len(T) |->
            IF r - 1 < Len(vals)
            THEN List([T[r] EXCEPT ![c + 1] = vals[r]])
            ELSE T[r]])

\* np.sum(test[i, :2*n]) where test[i, r] = 1 iff entry r of column c2 is
\* within err of x
MatchCount(T, c2, x, err, n) ==
    Cardinality({r \in 0..(Len(T) - 1) :
                    r < 2 * n /\ WithinRel(x, At(T, r, c2), err)})

\* the column the pass for order-index n writes
WriteColumn(n, nmax) == IF n = 1 THEN 0 ELSE PyIdx(n - 1, nmax)

\* a comparison with the column being written
CompareColumn_own(n, nmax) == PyIdx(n - 1, nmax)

\* the column the pass for order-index n compares with: fn_temp[:2*n, n-2]
CompareColumn(n, nmax) == PyIdx(n - 2, nmax)

\* the order-index whose pass wrote column c last: fn_temp[i, n - 1] = fn[i]
SourceOrder(c, nmax) == CHOOSE n \in 0..(nmax - 1) : WriteColumn(n, nmax) = c

\* the body of stabilisation's loop for order-index n
StabStep(S, sr, nmax, err_fn, err_xi, n) ==
    LET fx == complex_freq_to_freq_and_damp(Seq0(sr, n))
        d == redundant_values(fx[1], fx[2], StabPrec)
        fn == d[1]
        xi == d[2]
        c1 == WriteColumn(n, nmax)
        c2 == CompareColumn(n, nmax)
    IN  IF n = 1
        THEN [S EXCEPT !.fn_temp = SetColumn(S.fn_temp, 0, fn),
                       !.xi_temp = SetColumn(S.xi_temp, 0, xi)]
        ELSE [fn_temp |-> SetColumn(S.fn_temp, c1, fn),
              xi_temp |-> SetColumn(S.xi_temp, c1, xi),
              test_fn |-> SetColumn(S.test_fn, c1,
                  List([k \in 1..Len(fn) |->
                      MatchCount(S.fn_temp, c2, fn[k], err_fn, n)])),
              test_xi |-> SetColumn(S.test_xi, c1,
                  List([k \in 1..Len(xi) |->
                      MatchCount(S.xi_temp, c2, xi[k], err_xi, n)]))]

\* stabilisation raises IndexError when the compared column n-2 does not
\* exist, which is the case for nmax = 1
StabRaises(nmax) == nmax < 2

stabilisation(sr, nmax, err_fn, err_xi) ==
    LET F[n \in 0..nmax] ==
            IF n = 0
            THEN [fn_temp |-> ZeroTable(nmax), xi_temp |-> ZeroTable(nmax),
                  test_fn |-> ZeroTable(nmax), test_xi |-> ZeroTable(nmax)]
            ELSE StabStep(F[n - 1], sr, nmax, err_fn, err_xi, n - 1)
    IN  F[nmax]

\* the tolerances err_fn and err_xi as <<num, den>>: the defaults 0.001 and
\* 0.05 of stab_chart and select_closest_poles, and a wide one
ErrFnVals == {<<1, 1000>>}
ErrXiVals == {<<1, 20>>, <<1, 2>>}

\* stabilisation applied to any pole table of any order
StabArgs ==
    UNION {[sr : AllTables(n), nmax : {n}, err_fn : ErrFnVals,
            err_xi : ErrXiVals] : n \in 1..MaxOrder}

stabilisation_call ==
    /\ pc = "call"
    /\ pc' = "done"
    /\ op' = [name |-> "stabilisation"]
    /\ IF StabRaises(args.nmax)
       THEN exc' = "IndexError" /\ ret' = NoRet
       ELSE /\ exc' = ""
            /\ \E S \in {stabilisation(args.sr, args.nmax, args.err_fn,
                                       args.err_xi)} :
                  ret' = [kind |-> "value",
                          items |-> <<S.fn_temp, S.xi_temp, S.test_fn,
                                      S.test_xi>>]
    /\ UNCHANGED <<args, objVars, poleVars, selVars, f_stable, reconVars, H,
                   chart, shift_is_held, sel_ind>>

----------------------------------------------------------------------------
(* select_closest_poles, as functions of its arguments and the pole table *)

\* a, c, d of stab_chart
StableFnOnly(S, r, c) ==
    /\ At(S.test_fn, r, c) > 0
    /\ (At(S.test_xi, r, c) = 0 \/ At(S.xi_temp, r, c) <= 0)

StableNone(S, r, c) ==
    /\ At(S.test_fn, r, c) = 0
    /\ (At(S.test_xi, r, c) = 0 \/ At(S.xi_temp, r, c) <= 0)

StableXiOnly(S, r, c) ==
    /\ At(S.test_fn, r, c) = 0
    /\ At(S.test_xi, r, c) > 0
    /\ At(S.xi_temp, r, c) > 0

\* the class with the damping sign left out
StableBoth_flags(S, r, c) ==
    /\ At(S.test_fn, r, c) > 0
    /\ At(S.test_xi, r, c) > 0

\* b of select_closest_poles and of stab_chart: the stable-frequency,
\* stable-damping cells
StableBoth(S, r, c) ==
    /\ At(S.test_fn, r, c) > 0
    /\ At(S.test_xi, r, c) > 0
    /\ At(S.xi_temp, r, c) > 0

\* fn_temp * mask, xi_temp * mask
Masked(T, S) ==
    List([r \in 1..Len(T) |->
            List([c \in 1..Len(T[r]) |->
                    IF StableBoth(S, r - 1, c - 1) THEN T[r][c] ELSE 0])])

\* the quotients taken from the divisor 1 on
FWindows_from1(f_window) ==
    Append(SelectSeq([i \in 1..99 |-> f_window \div i],
                     LAMBDA q : q > 3), 2)

\* [f_window//i for i in range(2, 100) if f_window//i > 3] + [2]
FWindows(f_window) ==
    Append(SelectSeq([i \in 1..98 |-> f_window \div (i + 1)],
                     LAMBDA q : q > 3), 2)

\* the cells of a table in numpy's flattened (row-major) order
Flat(T, nmax) ==
    List([k \in 1..(2 * nmax * nmax) |->
            At(T, (k - 1) \div nmax, (k - 1) % nmax)])

\* a frequency estimate is the rational <<num, den>>, den > 0
InWindow(v, fr, f_step) ==
    /\ v * fr[2] > fr[1] - f_step * fr[2]
    /\ v * fr[2] < fr[1] + f_step * fr[2]

SumSeq(s) ==
    LET F[k \in 0..Len(s)] == IF k = 0 THEN 0 ELSE F[k - 1] + s[k]
    IN  F[Len(s)]

\* least_squares(lambda x: fun(x, f_w), x0=[fr]).x[0]: the minimiser of the
\* sum of squares of (_f_stable - f) is the mean of _f_stable, the cells of
\* f_stable strictly inside (fr - f_w, fr + f_w); with no cell inside, the
\* residual is empty and the start value is returned
Refine(flat, fr, f_w) ==
    LET inside == SelectSeq(flat, LAMBDA v : InWindow(v, fr, f_w))
    IN  IF Len(inside) = 0 THEN fr ELSE <<SumSeq(inside), Len(inside)>>

\* the for-loop over f_windows
RefineAll(flat, fr0, f_windows) ==
    LET F[k \in 0..Len(f_windows)] ==
            IF k = 0 THEN fr0 ELSE Refine(flat, F[k - 1], f_windows[k])
    IN  F[Len(f_windows)]

\* np.abs(s - fr) up to the positive factor fr[2]
AbsDiffQ(s, fr) == [k \in 1..Len(s) |-> Abs(s[k] * fr[2] - fr[1])]

\* the order-index select_closest_poles takes for a cell of column col
OrderOfColumn(col) == col

\* the body of the loop over approx_nat_freq for one target: the cell
\* f_sel = (row, col) and the Pole Reference
MatchOne(S, pf, nmax, target, f_window) ==
    LET fs == Masked(S.fn_temp, S)
        flat == Flat(fs, nmax)
        fr == RefineAll(flat, <<target, 1>>, FWindows(f_window))
        k == ArgMin(AbsDiffQ(flat, fr))
        row == k \div nmax
        col == k % nmax
        o == OrderOfColumn(col)
        sel == ArgMin(AbsDiffQ(Seq0(pf, o), fr))
    IN  [row |-> row, col |-> col, fr |-> fr,
         ref |-> <<o, ArgMin(AbsDiff(Seq0(pf, o), Seq0(Seq0(pf, o), sel)))>>]

\* pole_freq and pole_xi as get_poles stores them
PoleFreq(table) == [o \in 1..Len(table) |-> complex_freq_to_freq_and_damp(table[o])[1]]
PoleXi(table) == [o \in 1..Len(table) |-> complex_freq_to_freq_and_damp(table[o])[2]]

\* what select_closest_poles computes for the targets: per target the cell
\* and the Pole Reference
MatchAll(S, pf, nmax, targets, f_window) ==
    List([i \in 1..Len(targets) |->
            MatchOne(S, pf, nmax, targets[i], f_window)])

----------------------------------------------------------------------------
(* The analysed object: get_poles, stab_chart and its handlers,            *)
(* select_closest_poles, lsfd and FRF_reconstruct as steps on one lscf     *)
(* instance.  stab_chart blocks in root.mainloop() until the window is     *)
(* closed; while it does (chart = TRUE) only its handlers run.             *)

\* get_poles is a function of the FRF data; the data is not modelled, the
\* table it yields is drawn at the first call and the same at later calls
get_poles ==
    /\ pc = "built" /\ ~chart
    /\ "freq" \in attrs /\ Len(freq) > 0
    /\ IF "all_poles" \in attrs
       THEN UNCHANGED poleVars
       ELSE /\ all_poles' \in NestedTables(pol_order_high)
            /\ pole_freq' = PoleFreq(all_poles')
            /\ pole_xi' = PoleXi(all_poles')
    /\ attrs' = attrs \cup {"all_poles", "pole_freq", "pole_xi", "partfactors"}
    /\ op' = [name |-> "get_poles"]
    /\ exc' = ""
    /\ ret' = NoRet
    /\ UNCHANGED <<pc, args, lower, upper, freq, frf, pol_order_high,
                   sampling_time, selVars, f_stable, reconVars, H, chart,
                   shift_is_held, sel_ind>>

\* stab_chart up to root.mainloop()
stab_chart ==
    /\ pc = "built" /\ ~chart
    /\ op' = [name |-> "stab_chart"]
    /\ ret' = NoRet
    /\ IF "all_poles" \notin attrs
       THEN /\ exc' = "AttributeError"
            /\ UNCHANGED <<selVars, chart, shift_is_held>>
       ELSE IF StabRaises(pol_order_high)
       THEN /\ exc' = "IndexError"
            /\ UNCHANGED <<selVars, chart, shift_is_held>>
       ELSE /\ exc' = ""
            /\ nat_freq' = <<>>
            /\ nat_xi' = <<>>
            /\ pole_ind' = <<>>
            /\ sel_kind' = "list"
            /\ shift_is_held' = FALSE
            /\ chart' = TRUE
    /\ UNCHANGED <<pc, args, objVars, poleVars, f_stable, reconVars, H,
                   sel_ind>>

Keys == {"shift", "a"}

on_key_press ==
    /\ chart
    /\ \E key \in Keys :
          /\ op' = [name |-> "on_key_press", key |-> key]
          /\ shift_is_held' = IF key = "shift" THEN TRUE ELSE shift_is_held
    /\ exc' = ""
    /\ ret' = NoRet
    /\ UNCHANGED <<pc, args, objVars, poleVars, selVars, f_stable, reconVars,
                   H, chart, sel_ind>>

on_key_release ==
    /\ chart
    /\ \E key \in Keys :
          /\ op' = [name |-> "on_key_release", key |-> key]
          /\ shift_is_held' = IF key = "shift" THEN FALSE ELSE shift_is_held
    /\ exc' = ""
    /\ ret' = NoRet
    /\ UNCHANGED <<pc, args, objVars, poleVars, selVars, f_stable, reconVars,
                   H, chart, sel_ind>>

\* on_closing: root.destroy() ends the mainloop and stab_chart returns
on_closing ==
    /\ chart
    /\ chart' = FALSE
    /\ op' = [name |-> "on_closing"]
    /\ exc' = ""
    /\ ret' = NoRet
    /\ UNCHANGED <<pc, args, objVars, poleVars, selVars, f_stable, reconVars,
                   H, shift_is_held, sel_ind>>

----------------------------------------------------------------------------
(* lsfd and FRF_reconstruct.  The least-squares solution is not computed:  *)
(* A, LR and UR are kept as their shape and the data they are solved from  *)
(* (the selected poles, the frequency band, the options).                  *)

\* the reconstruction selector FRF_ind: None, 'all', an int, another string
FRFInds ==
    {[t |-> "None", v |-> 0], [t |-> "all", v |-> 0], [t |-> "str", v |-> 0]}
    \cup {[t |-> "int", v |-> i] : i \in -1..NumOutputs}

RowInds == -1..NumOutputs

\* <<complex_mode, upper_r, lower_r>>
LsfdOpts == {<<TRUE, TRUE, TRUE>>, <<FALSE, TRUE, FALSE>>}

DefaultOpts == <<TRUE, TRUE, TRUE>>

\* pi[k] names a stored pole
ValidRef(p) ==
    /\ p[1] \in 0..(Len(all_poles) - 1)
    /\ p[2] \in 0..(Len(Seq0(all_poles, p[1])) - 1)

\* poles of lsfd: whose_poles.all_poles[pole_ind[i, 0]][pole_ind[i, 1]]
LsfdPoles_appended(pi) ==
    poles \o [k \in 1..Len(pi) |-> Seq0(Seq0(all_poles, pi[k][1]), pi[k][2])]

LsfdPoles(pi) ==
    [k \in 1..Len(pi) |-> Seq0(Seq0(all_poles, pi[k][1]), pi[k][2])]

\* what lsfd raises before it stores anything (whose_poles = 'own')
LsfdPreExc(kind, pi) ==
    IF kind = "unset" THEN "AttributeError"
    ELSE IF \E k \in 1..Len(pi) : ~ValidRef(pi[k]) THEN "IndexError"
    ELSE IF Len(freq) = 0 THEN "ValueError"
    ELSE ""

\* the columns of self.A = -(A_LSFD[:, :M_2] + 1j*A_LSFD[:, M_2:-4]), where
\* A_LSFD has 2*M_2+4 columns
ModalConstCols_all(M_2) == 2 * M_2 + 4

ModalConstCols(M_2) == SliceLen(2 * M_2 + 4, 0, M_2)

\* the data the solution is computed from: f_lower and f_upper default to
\* self.lower and self.upper
LsfdSrc(pi, opts) ==
    [poles |-> LsfdPoles(pi),
     band |-> <<ArgMin(AbsDiff(freq, lower)), ArgMin(AbsDiff(freq, upper))>>,
     opts |-> opts]

LsfdA(pi, opts) ==
    [rows |-> frf.rows, cols |-> ModalConstCols(Len(pi)),
     src |-> LsfdSrc(pi, opts)]

LsfdResidual(pi, opts) == [len |-> frf.rows, src |-> LsfdSrc(pi, opts)]

\* FRF_reconstruct(FRF_ind) on stored a, p (self.A, self.poles): the
\* exception it raises, and the row it returns
ReconstructExc(a, p, i) ==
    IF i \notin (-a.rows)..(a.rows - 1) THEN "IndexError"
    ELSE IF a.cols > Len(p) THEN "IndexError"
    ELSE ""

ReconstructRow(a, p, i) ==
    [what |-> "row", shape |-> <<Len(freq)>>, index |-> PyIdx(i, a.rows),
     src |-> a.src, poles |-> p]

\* the dispatch on FRF_ind at the end of lsfd
LsfdDispatchExc_lenient(a, p, ind) ==
    CASE ind.t = "int" -> ReconstructExc(a, p, ind.v)
      [] OTHER -> ""

LsfdDispatchExc(a, p, ind) ==
    CASE ind.t = "None" -> ""
      [] ind.t = "all" -> ""
      [] ind.t = "int" -> ReconstructExc(a, p, ind.v)
      [] OTHER -> "FRF_ind must be None, all or int"

ModalConsts(a) == [what |-> "A", shape |-> <<a.rows, a.cols>>, src |-> a.src]

\* the components of the value lsfd returns
LsfdRet(a, p, ind) ==
    CASE ind.t = "None" -> <<ModalConsts(a)>>
      [] ind.t = "all" ->
            <<[what |-> "matrix", shape |-> <<frf.rows, Len(freq)>>,
               src |-> a.src, poles |-> p], ModalConsts(a)>>
      [] ind.t = "int" -> <<ReconstructRow(a, p, ind.v), ModalConsts(a)>>
      [] OTHER -> <<>>

\* the call repeats the call before it: same selector, same options, and
\* nothing ran in between
SameCall(ind, opts) ==
    /\ op.name = "lsfd"
    /\ op.FRF_ind = ind
    /\ op.opts = opts

lsfd(inds, optss) ==
    /\ pc = "built" /\ ~chart
    /\ \E ind \in inds, opts \in optss :
          /\ op' = [name |-> "lsfd", FRF_ind |-> ind, opts |-> opts,
                    again |-> SameCall(ind, opts)]
          /\ IF LsfdPreExc(sel_kind, pole_ind) # ""
             THEN /\ exc' = LsfdPreExc(sel_kind, pole_ind)
                  /\ ret' = NoRet
                  /\ UNCHANGED <<attrs, reconVars>>
             ELSE /\ A' = LsfdA(pole_ind, opts)
                  /\ LR' = LsfdResidual(pole_ind, opts)
                  /\ UR' = LsfdResidual(pole_ind, opts)
                  /\ poles' = LsfdPoles(pole_ind)
                  /\ attrs' = attrs \cup {"A", "LR", "UR", "poles"}
                  /\ exc' = LsfdDispatchExc(A', poles', ind)
                  /\ ret' = IF exc' = ""
                            THEN [kind |-> "value",
                                  items |-> LsfdRet(A', poles', ind)]
                            ELSE NoRet
    /\ UNCHANGED <<pc, args, lower, upper, freq, frf, pol_order_high,
                   sampling_time, poleVars, selVars, f_stable, H, chart,
                   shift_is_held, sel_ind>>

FRF_reconstruct(inds) ==
    /\ pc = "built" /\ ~chart
    /\ \E i \in inds :
          /\ op' = [name |-> "FRF_reconstruct", FRF_ind |-> i]
          /\ exc' = IF "A" \notin attrs THEN "AttributeError"
                    ELSE ReconstructExc(A, poles, i)
          /\ ret' = IF exc' = ""
                    THEN [kind |-> "value",
                          items |-> <<ReconstructRow(A, poles, i)>>]
                    ELSE NoRet
    /\ UNCHANGED <<pc, args, objVars, poleVars, selVars, f_stable, reconVars,
                   H, chart, shift_is_held, sel_ind>>

----------------------------------------------------------------------------
(* stab_chart's onclick handler and _select_closest_poles_on_the_fly *)

\* coordinates of a click: frequency and (fractional part dropped) order
ClickX == {90, 410}
ClickY == {0, MaxOrder}
Buttons == {1, 2, 3}

\* y_ind: np.argmin(np.abs(np.arange(0, len(self.pole_freq)) - y))
ClosestOrder(y) ==
    ArgMin([k \in 1..Len(pole_freq) |-> Abs((k - 1) - y)])

\* sel: np.argmin(np.abs(self.pole_freq[y_ind] - self.x_data_pole))
ClosestPole(y_ind, x) == ArgMin(AbsDiff(Seq0(pole_freq, y_ind), x))

\* the entry _select_closest_poles_on_the_fly appends to pole_ind
PickRef_swapped(y_ind, sel) == <<sel, y_ind>>

PickRef(y_ind, sel) == <<y_ind, sel>>

\* del s[-1] on a non-empty list
DelLast_first(s) == Tail(s)

DelLast(s) == SubSeq(s, 1, Len(s) - 1)

\* what leaves "try: ... except: pass" when e is raised inside
TryExcept_reraise(e) == e

TryExcept(e) == ""

\* replot(): self.H, self.A = self.lsfd(whose_poles='own', FRF_ind='all')
\* for the selection pi; its exception escapes and nothing is stored
Replot(pi) ==
    IF LsfdPreExc("list", pi) # ""
    THEN UNCHANGED <<attrs, reconVars, H>>
    ELSE /\ A' = LsfdA(pi, DefaultOpts)
         /\ LR' = LsfdResidual(pi, DefaultOpts)
         /\ UR' = LsfdResidual(pi, DefaultOpts)
         /\ poles' = LsfdPoles(pi)
         /\ H' = LsfdRet(A', poles', [t |-> "all", v |-> 0])[1]
         /\ attrs' = attrs \cup {"A", "LR", "UR", "poles", "H"}

\* button 1 with shift held
Pick(x, y) ==
    /\ Len(pole_ind) < MaxSel
    /\ \E y_ind \in {ClosestOrder(y)} :
       \E sel \in {ClosestPole(y_ind, x)} :
          /\ pole_ind' = Append(pole_ind, PickRef(y_ind, sel))
          /\ nat_freq' = Append(nat_freq, Seq0(Seq0(pole_freq, y_ind), sel))
          /\ nat_xi' = Append(nat_xi, Seq0(Seq0(pole_xi, y_ind), sel))
    /\ Replot(pole_ind')
    /\ exc' = LsfdPreExc("list", pole_ind')

\* button 3 with shift held: the three del statements and replot() inside
\* try/except
Unpick ==
    LET e1 == Len(nat_freq) = 0
        e2 == e1 \/ Len(nat_xi) = 0
        e3 == e2 \/ Len(pole_ind) = 0
    IN  /\ nat_freq' = IF e1 THEN nat_freq ELSE DelLast(nat_freq)
        /\ nat_xi' = IF e2 THEN nat_xi ELSE DelLast(nat_xi)
        /\ pole_ind' = IF e3 THEN pole_ind ELSE DelLast(pole_ind)
        /\ IF e3 THEN UNCHANGED <<attrs, reconVars, H>> ELSE Replot(pole_ind')
        /\ exc' = TryExcept(IF e3 THEN "IndexError"
                            ELSE LsfdPreExc("list", pole_ind'))

onclick ==
    /\ chart
    /\ \E button \in Buttons, x \in ClickX, y \in ClickY :
          /\ op' = [name |-> "onclick", button |-> button,
                    shift |-> shift_is_held, before |-> Len(pole_ind)]
          /\ IF button = 1 /\ shift_is_held THEN Pick(x, y)
             ELSE IF button = 3 /\ shift_is_held THEN Unpick
             ELSE /\ UNCHANGED <<attrs, pole_ind, nat_freq, nat_xi, reconVars, H>>
                  /\ exc' = ""
    /\ ret' = NoRet
    /\ UNCHANGED <<pc, args, lower, upper, freq, frf, pol_order_high,
                   sampling_time, poleVars, sel_kind, f_stable, chart,
                   shift_is_held, sel_ind>>

----------------------------------------------------------------------------
(* select_closest_poles *)

TargetVals == {20, 90, 380}
FWindowVals == {8, 50}

Targets == UNION {[1..n -> TargetVals] : n \in 0..MaxTargets}

\* the body of select_closest_poles once stabilisation has returned S
SelectClosestPoles(S, targets, f_window) ==
    \E m \in {MatchAll(S, pole_freq, pol_order_high, targets, f_window)},
       xi_stable \in {Masked(S.xi_temp, S)} :
        /\ f_stable' = Masked(S.fn_temp, S)
        /\ attrs' = attrs \cup {"f_stable"}
        /\ IF Len(targets) = 0
           THEN /\ exc' = "IndexError"
                /\ UNCHANGED <<selVars, sel_ind>>
           ELSE /\ exc' = ""
                /\ sel_ind' = [i \in 1..Len(targets) |-> <<m[i].col, m[i].row>>]
                /\ pole_ind' = [i \in 1..Len(targets) |-> m[i].ref]
                /\ nat_freq' = [i \in 1..Len(targets) |->
                                   At(f_stable', m[i].row, m[i].col)]
                /\ nat_xi' = [i \in 1..Len(targets) |->
                                 At(xi_stable, m[i].row, m[i].col)]
                /\ sel_kind' = "array"

select_closest_poles(targetss, f_windows, err_xis) ==
    /\ pc = "built" /\ ~chart
    /\ \E err_fn \in ErrFnVals, err_xi \in err_xis :
          \E S \in {IF "all_poles" \in attrs /\ ~StabRaises(pol_order_high)
                    THEN stabilisation(all_poles, pol_order_high, err_fn, err_xi)
                    ELSE <<>>} :
              \E targets \in targetss, f_window \in f_windows :
                /\ op' = [name |-> "select_closest_poles",
                          fn_temp |-> err_fn, xi_temp |-> err_xi]
                /\ IF "all_poles" \notin attrs
                   THEN /\ exc' = "AttributeError"
                        /\ UNCHANGED <<attrs, selVars, f_stable, sel_ind>>
                   ELSE IF StabRaises(pol_order_high)
                   THEN /\ exc' = "IndexError"
                        /\ UNCHANGED <<attrs, selVars, f_stable, sel_ind>>
                   ELSE SelectClosestPoles(S, targets, f_window)
    /\ ret' = NoRet
    /\ UNCHANGED <<pc, args, lower, upper, freq, frf, pol_order_high,
                   sampling_time, poleVars, reconVars, H, chart,
                   shift_is_held>>

----------------------------------------------------------------------------
(* Specifications *)

\* the arguments the analysed objects are constructed from
LifeArgs(n) ==
    [lower |-> 0, upper |-> MaxHz, freq |-> [k \in 1..MaxBins |-> k - 1],
     frf_cols |-> MaxBins, given |-> TRUE, pyfrf |-> FALSE,
     dt_given |-> FALSE, pol_order_high |-> n]

BuiltFields ==
    /\ pc = "built"
    /\ lower = args.lower
    /\ upper = args.upper
    /\ freq = InitFreq(args)
    /\ frf = InitFrf(args)
    /\ pol_order_high = args.pol_order_high
    /\ sampling_time = InitSamplingTime(args)

Built == BuiltFields /\ attrs = InitAttrs(args)

\* an object after construction
Init ==
    /\ args \in {LifeArgs(1), LifeArgs(MaxOrder)}
    /\ Built /\ NoPoles /\ Unselected
    /\ op = [name |-> "__init__"] /\ exc = "" /\ ret = NoRet

\* the arguments of the calls made between chart sessions
LifeTargets == {<<>>, <<90>>, <<380, 20>>}
LifeInds == {[t |-> "None", v |-> 0]}

Next ==
    \/ get_poles
    \/ stab_chart
    \/ on_key_press
    \/ on_key_release
    \/ onclick
    \/ on_closing
    \/ select_closest_poles(LifeTargets, {50}, {<<1, 20>>})
    \/ lsfd(LifeInds, {DefaultOpts})
    \/ FRF_reconstruct({0})

Spec == Init /\ [][Next]_vars

\* one call of select_closest_poles on an object whose get_poles has stored
\* any table
InitSel ==
    /\ args = LifeArgs(MaxOrder)
    /\ BuiltFields /\ Unselected
    /\ attrs = InitAttrs(args)
                \cup {"all_poles", "pole_freq", "pole_xi", "partfactors"}
    /\ all_poles \in AllTables(MaxOrder)
    /\ pole_freq = PoleFreq(all_poles)
    /\ pole_xi = PoleXi(all_poles)
    /\ op = [name |-> "__init__"] /\ exc = "" /\ ret = NoRet

NextSel ==
    /\ op.name = "__init__"
    /\ select_closest_poles(Targets, FWindowVals, ErrXiVals)

SpecSel == InitSel /\ [][NextSel]_vars

\* calls of lsfd and FRF_reconstruct with any selector after one call of
\* select_closest_poles
NextRecon ==
    \/ get_poles
    \/ /\ sel_kind = "unset"
       /\ select_closest_poles(Targets, {50}, {<<1, 20>>})
    \/ lsfd(FRFInds, LsfdOpts)
    \/ FRF_reconstruct(RowInds)

SpecRecon == Init /\ [][NextRecon]_vars

\* one call of redundant_values on any pair of vectors
InitRed ==
    /\ pc = "call"
    /\ args \in RedArgs
    /\ NoObject /\ NoPoles /\ Unselected
    /\ op = [name |-> ""] /\ exc = "" /\ ret = NoRet

NextRed == redundant_values_call

SpecRed == InitRed /\ [][NextRed]_vars

\* one call of stabilisation on any pole table
InitStab ==
    /\ pc = "call"
    /\ args \in StabArgs
    /\ NoObject /\ NoPoles /\ Unselected
    /\ op = [name |-> ""] /\ exc = "" /\ ret = NoRet

NextStab == stabilisation_call

SpecStab == InitStab /\ [][NextStab]_vars

\* the half-widths select_closest_poles derives from f_window
f_windows_call ==
    /\ pc = "call"
    /\ pc' = "done"
    /\ op' = [name |-> "f_windows"]
    /\ exc' = ""
    /\ ret' = [kind |-> "value", items |-> FWindows(args.f_window)]
    /\ UNCHANGED <<args, objVars, poleVars, selVars, f_stable, reconVars, H,
                   chart, shift_is_held, sel_ind>>

\* the derivation of the half-widths for any positive f_window
InitWin ==
    /\ pc = "call"
    /\ args \in [f_window : 1..MaxWindow]
    /\ NoObject /\ NoPoles /\ Unselected
    /\ op = [name |-> ""] /\ exc = "" /\ ret = NoRet

NextWin == f_windows_call

SpecWin == InitWin /\ [][NextWin]_vars

----------------------------------------------------------------------------
(* Claims about construction, checked under SpecBuild *)

IsAscending(s) == \A k \in 1..(Len(s) - 1) : s[k] < s[k + 1]

\* the constructor was given frf and freq of matching shapes, an ascending
\* freq and bounds upper > lower >= 0, and it returned an object
BuiltFromValidInput ==
    /\ pc = "built"
    /\ ~args.pyfrf /\ args.given
    /\ args.upper > args.lower /\ args.lower >= 0
    /\ args.frf_cols = Len(args.freq)
    /\ IsAscending(args.freq)

\* C6 as stated: after every successful construction from valid input the
\* truncated frequency vector has a last element, that element is <= upper,
\* and the vector is as long as the truncated FRF has columns.
C6_AsStated ==
    BuiltFromValidInput =>
        /\ Len(freq) > 0
        /\ freq[Len(freq)] <= upper
        /\ Len(freq) = frf.cols

\* C6 amended: after every successful construction from valid input the
\* truncated frequency vector is as long as the truncated FRF has columns,
\* and when it is not empty its last element is <= upper.
C6_TruncatedFreq ==
    BuiltFromValidInput =>
        /\ Len(freq) = frf.cols
        /\ (Len(freq) > 0 => freq[Len(freq)] <= upper)

\* C6 witness: a construction that cut entries off and kept some
C6_Witness ==
    /\ BuiltFromValidInput
    /\ Len(freq) > 0
    /\ Len(freq) < Len(args.freq)
    /\ freq[Len(freq)] < upper

\* C7 as stated: no object is constructed from inconsistent bounds, from an
\* frf whose column count differs from the length of freq, or from a
\* non-positive pol_order_high.
C7_AsStated ==
    pc = "built" =>
        /\ args.lower >= 0
        /\ args.upper > args.lower
        /\ ((~args.pyfrf) => args.frf_cols = Len(args.freq))
        /\ args.pol_order_high > 0

----------------------------------------------------------------------------
(* Claims about the Selected Modal Set, checked under Spec *)

\* C1: in every reachable state every entry (o, i) of pole_ind references
\* an existing pole: 0 <= o < pol_order_high and 0 <= i < the number of
\* poles stored for order-index o.
C1_PoleIndValid ==
    \A k \in 1..Len(pole_ind) :
        /\ pole_ind[k][1] >= 0
        /\ pole_ind[k][1] < pol_order_high
        /\ pole_ind[k][2] >= 0
        /\ pole_ind[k][2] < Len(Seq0(all_poles, pole_ind[k][1]))

\* C1 witness: select_closest_poles has run, and in a later chart session
\* two poles were picked, the second from an order above the first
C1_Witness ==
    /\ chart /\ "f_stable" \in attrs
    /\ op.name = "onclick" /\ op.button = 1 /\ op.shift
    /\ Len(pole_ind) >= 2
    /\ pole_ind[2][1] > 0

\* an onclick step with shift held and the given button
ClickStep(button) ==
    /\ op'.name = "onclick"
    /\ op'.button = button
    /\ op'.shift

\* C2: a removal (button 3 with shift held) while nat_freq, nat_xi and
\* pole_ind are empty lets no error escape the handler and leaves the three
\* lists empty.
C2_UnpickEmptyNoop ==
    [][(ClickStep(3) /\ pole_ind = <<>> /\ nat_freq = <<>> /\ nat_xi = <<>>)
          => (exc' = "" /\ pole_ind' = <<>> /\ nat_freq' = <<>>
                /\ nat_xi' = <<>>)]_vars

\* C2 witness: a removal was clicked on the empty selection
C2_Witness ==
    /\ op.name = "onclick" /\ op.button = 3 /\ op.shift /\ op.before = 0
    /\ pole_ind = <<>> /\ nat_freq = <<>> /\ nat_xi = <<>>
    /\ exc = ""

\* s2 is s1 with exactly one element appended
AppendsOne(s1, s2) == Len(s2) = Len(s1) + 1 /\ SubSeq(s2, 1, Len(s1)) = s1

\* s2 is s1 with exactly its last element deleted
DeletesLast(s1, s2) == Len(s1) > 0 /\ s2 = SubSeq(s1, 1, Len(s1) - 1)

\* the frequency and damping appended with a Pole Reference are those of
\* the pole it names
LastNamesPole(pi, nf, nx) ==
    /\ pi[Len(pi)][1] \in 0..(Len(pole_freq) - 1)
    /\ pi[Len(pi)][2] \in 0..(Len(Seq0(pole_freq, pi[Len(pi)][1])) - 1)
    /\ nf[Len(nf)] = Seq0(Seq0(pole_freq, pi[Len(pi)][1]), pi[Len(pi)][2])
    /\ nx[Len(nx)] = Seq0(Seq0(pole_xi, pi[Len(pi)][1]), pi[Len(pi)][2])

\* C3: a pick appends exactly one Pole Reference with its frequency and
\* damping at the end of the three lists, a removal from a non-empty
\* selection deletes exactly the last entry of each and keeps the earlier
\* ones in order, and the three lists always have equal length.
C3_Stack ==
    [][/\ ClickStep(1) =>
            /\ AppendsOne(pole_ind, pole_ind')
            /\ AppendsOne(nat_freq, nat_freq')
            /\ AppendsOne(nat_xi, nat_xi')
            /\ LastNamesPole(pole_ind', nat_freq', nat_xi')
       /\ (ClickStep(3) /\ pole_ind # <<>>) =>
            /\ DeletesLast(pole_ind, pole_ind')
            /\ DeletesLast(nat_freq, nat_freq')
            /\ DeletesLast(nat_xi, nat_xi')
       /\ Len(nat_freq') = Len(pole_ind')
       /\ Len(nat_xi') = Len(pole_ind')]_vars

\* C3 witness: a removal from a selection of two poles left the
\* first of them
C3_Witness ==
    /\ op.name = "onclick" /\ op.button = 3 /\ op.shift /\ op.before = 2
    /\ Len(pole_ind) = 1 /\ Len(nat_freq) = 1 /\ Len(nat_xi) = 1
    /\ "H" \in attrs /\ Len(poles) = 1
    /\ H.poles # <<>>

----------------------------------------------------------------------------
(* Claims about lsfd, checked under SpecRecon *)

\* a step of lsfd, called with the selector kind t on an object that has a
\* selection
LsfdStep(t) ==
    /\ op'.name = "lsfd"
    /\ op'.FRF_ind.t = t
    /\ sel_kind # "unset"

Returns(r, n) == r.kind = "value" /\ Len(r.items) = n

\* C4 as stated: None returns the modal constants alone, 'all' a matrix of
\* shape (numOutputs, numFrequencyBins) with the modal constants, an integer
\* output index only the reconstructed row, another string raises.
C4_AsStated ==
    [][/\ LsfdStep("None") =>
            /\ exc' = "" /\ Returns(ret', 1)
            /\ ret'.items[1].what = "A"
       /\ LsfdStep("all") =>
            /\ exc' = "" /\ Returns(ret', 2)
            /\ ret'.items[1].what = "matrix"
            /\ ret'.items[1].shape = <<frf.rows, Len(freq)>>
            /\ ret'.items[2].what = "A"
       /\ (LsfdStep("int") /\ op'.FRF_ind.v \in 0..(frf.rows - 1)) =>
            /\ exc' = "" /\ Returns(ret', 1)
            /\ ret'.items[1].what = "row"
            /\ ret'.items[1].index = op'.FRF_ind.v
       /\ LsfdStep("str") => (exc' # "" /\ ret'.kind = "none")]_vars

\* C4 amended: None returns the modal constants alone, 'all' a matrix of
\* shape (numOutputs, numFrequencyBins) together with the modal constants,
\* an integer output index the reconstructed row of that output together
\* with the modal constants, another string raises.
C4_Dispatch ==
    [][/\ LsfdStep("None") =>
            /\ exc' = "" /\ Returns(ret', 1)
            /\ ret'.items[1].what = "A"
       /\ LsfdStep("all") =>
            /\ exc' = "" /\ Returns(ret', 2)
            /\ ret'.items[1].what = "matrix"
            /\ ret'.items[1].shape = <<frf.rows, Len(freq)>>
            /\ ret'.items[2].what = "A"
       /\ (LsfdStep("int") /\ op'.FRF_ind.v \in 0..(frf.rows - 1)) =>
            /\ exc' = "" /\ Returns(ret', 2)
            /\ ret'.items[1].what = "row"
            /\ ret'.items[1].index = op'.FRF_ind.v
            /\ ret'.items[1].shape = <<Len(freq)>>
            /\ ret'.items[2].what = "A"
       /\ LsfdStep("str") => (exc' # "" /\ ret'.kind = "none")]_vars

\* C4 witness: lsfd called with an integer selector returned a row and the
\* modal constants
C4_Witness ==
    /\ op.name = "lsfd" /\ op.FRF_ind.t = "int" /\ op.FRF_ind.v = 1
    /\ exc = "" /\ Returns(ret, 2)
    /\ ret.items[1].what = "row" /\ ret.items[1].index = 1
    /\ ret.items[2].what = "A"

C11_LsfdIdempotent ==
    [][(op'.name = "lsfd" /\ op'.again) =>
          /\ ret' = ret
          /\ exc' = exc
          /\ A' = A /\ LR' = LR /\ UR' = UR /\ poles' = poles]_vars

\* C11 witness: lsfd has been called twice in a row with FRF_ind='all' on
\* a selection of two poles and returned the matrix and the modal constants
C11_Witness ==
    /\ op.name = "lsfd" /\ op.again /\ op.FRF_ind.t = "all"
    /\ exc = "" /\ Returns(ret, 2)
    /\ Len(pole_ind) = 2 /\ Len(poles) = 2
    /\ A.cols = 2

----------------------------------------------------------------------------
(* Claim about the Reconstructor state, checked under Spec *)

\* C8 as stated: in every reachable state the stored A, LR, UR and poles are
\* absent or derived from the current pole_ind, and FRF_reconstruct returns
\* a row evaluated from the poles of the current pole_ind.
C8_AsStated ==
    /\ "A" \in attrs =>
          /\ poles = LsfdPoles(pole_ind)
          /\ A.src.poles = LsfdPoles(pole_ind)
          /\ LR.src.poles = LsfdPoles(pole_ind)
          /\ UR.src.poles = LsfdPoles(pole_ind)
    /\ (op.name = "FRF_reconstruct" /\ exc = "") =>
          /\ ret.items[1].poles = LsfdPoles(pole_ind)
          /\ ret.items[1].src.poles = LsfdPoles(pole_ind)

----------------------------------------------------------------------------
(* Claims about select_closest_poles, checked under SpecSel *)

\* the stabilisation tables of the last select_closest_poles call
LastTables ==
    stabilisation(all_poles, pol_order_high, op.fn_temp, op.xi_temp)

\* C9 as stated: every cell select_closest_poles chooses as closest to a
\* refined target is of the stable-frequency/stable-damping class, never a
\* masked-out cell.
C9_AsStated ==
    (op.name = "select_closest_poles" /\ exc = "") =>
        \A k \in 1..Len(sel_ind) :
            StableBoth(LastTables, sel_ind[k][2], sel_ind[k][1])

\* C10 as stated: when the selected cell is a stable one, the order-index of
\* the returned Pole Reference is the order whose solver output filled the
\* selected column.
C10_AsStated ==
    (op.name = "select_closest_poles" /\ exc = "") =>
        \A k \in 1..Len(sel_ind) :
            StableBoth(LastTables, sel_ind[k][2], sel_ind[k][1]) =>
                pole_ind[k][1] = SourceOrder(sel_ind[k][1], pol_order_high)

----------------------------------------------------------------------------
(* Claim about redundant_values, checked under SpecRed *)

\* the pairs of positions whose entries are within prec of each other
ClosePairs(omega, prec) ==
    {q \in (1..Len(omega)) \X (1..Len(omega)) :
        q[1] < q[2] /\ Abs(omega[q[1]] - omega[q[2]]) < prec}

\* the entries of s at the positions K, in order
EntriesAt(s, K) ==
    LET F[k \in 0..Len(s)] ==
            IF k = 0 THEN <<>>
            ELSE IF k \in K THEN Append(F[k - 1], s[k]) ELSE F[k - 1]
    IN  F[Len(s)]

RedCalled == op.name = "redundant_values"

\* C12: with exactly two entries within prec of each other the frequency
\* output is the input without one entry of that pair; with no two entries
\* within prec it is the input; the damping output holds the dampings of
\* exactly the positions kept for the frequencies.
C12_RedundantValues ==
    RedCalled =>
        /\ Cardinality(ClosePairs(args.omega, args.prec)) = 1 =>
              /\ Len(ret.items[1]) = Len(args.omega) - 1
              /\ \E q \in ClosePairs(args.omega, args.prec) :
                    \E d \in {q[1], q[2]} :
                        ret.items[1] =
                            EntriesAt(args.omega, (1..Len(args.omega)) \ {d})
        /\ ClosePairs(args.omega, args.prec) = {} =>
              /\ ret.items[1] = args.omega
              /\ ret.items[2] = args.xi
        /\ \E K \in SUBSET (1..Len(args.omega)) :
              /\ ret.items[1] = EntriesAt(args.omega, K)
              /\ ret.items[2] = EntriesAt(args.xi, K)

\* C12 witness: of two entries within prec in the middle of a longer vector
\* of different dampings one was dropped
C12_Witness ==
    /\ RedCalled
    /\ Len(args.omega) = 4
    /\ ClosePairs(args.omega, args.prec) = {<<2, 3>>}
    /\ args.xi[2] # args.xi[3]
    /\ Len(ret.items[1]) = 3 /\ Len(ret.items[2]) = 3

----------------------------------------------------------------------------
(* Claims about stabilisation and the four classes, checked under SpecStab *)

StabReturned == op.name = "stabilisation" /\ exc = ""

\* the tables stabilisation returned
Tables ==
    [fn_temp |-> ret.items[1], xi_temp |-> ret.items[2],
     test_fn |-> ret.items[3], test_xi |-> ret.items[4]]

\* the deduplicated frequencies (1) and dampings (2) of order-index n
Dedup(n) ==
    redundant_values(complex_freq_to_freq_and_damp(Seq0(args.sr, n))[1],
                     complex_freq_to_freq_and_damp(Seq0(args.sr, n))[2],
                     StabPrec)

\* x deviates relatively by less than err = <<num, den>> from prev
RelClose(x, prev, err) ==
    prev # 0 /\ Abs(x - prev) * err[2] < err[1] * Abs(prev)

\* x is within err of an entry in the first 2*n rows of column n-2 of T
HasMatch(T, x, err, n) ==
    \E r \in 0..(2 * n - 1) : RelClose(x, At(T, r, n - 2), err)

\* C13: for every order step n >= 2 and every deduplicated pole i of that
\* order, test_fn[i, n-1] > 0 exactly when the pole's frequency is within
\* err_fn of an entry in the first 2*n rows of column n-2 of fn_temp and is 0
\* otherwise, and the same holds for test_xi with the dampings and err_xi.
C13_StabilityTests ==
    StabReturned =>
        \A n \in 2..(args.nmax - 1) :
            \A i \in 0..(Len(Dedup(n)[1]) - 1) :
                /\ At(Tables.test_fn, i, n - 1) >= 0
                /\ At(Tables.test_fn, i, n - 1) > 0
                      <=> HasMatch(Tables.fn_temp, Seq0(Dedup(n)[1], i),
                                   args.err_fn, n)
                /\ At(Tables.test_xi, i, n - 1) >= 0
                /\ At(Tables.test_xi, i, n - 1) > 0
                      <=> HasMatch(Tables.xi_temp, Seq0(Dedup(n)[2], i),
                                   args.err_xi, n)

\* C13 witness: at order step 2 one pole is frequency-stable, another is
\* not, and a pole is damping-stable without being frequency-stable
C13_Witness ==
    /\ StabReturned /\ args.nmax >= 3
    /\ \E i, j, k \in 0..(Len(Dedup(2)[1]) - 1) :
          /\ At(Tables.test_fn, i, 1) > 0
          /\ At(Tables.test_fn, j, 1) = 0
          /\ At(Tables.test_fn, k, 1) = 0 /\ At(Tables.test_xi, k, 1) > 0

\* C14 as stated: for every order-index k, column k of fn_temp and xi_temp
\* holds, by position, the deduplicated frequencies and dampings of
\* order-index k and zeros below them.
C14_AsStated ==
    StabReturned =>
        \A k \in 0..(args.nmax - 1) :
            \A r \in 0..(2 * args.nmax - 1) :
                /\ At(Tables.fn_temp, r, k) =
                      IF r < Len(Dedup(k)[1]) THEN Seq0(Dedup(k)[1], r) ELSE 0
                /\ At(Tables.xi_temp, r, k) =
                      IF r < Len(Dedup(k)[2]) THEN Seq0(Dedup(k)[2], r) ELSE 0

\* the classes a cell is plotted in
ClassesOf(S, r, c) ==
    {x \in {"a", "b", "c", "d"} :
        \/ x = "a" /\ StableFnOnly(S, r, c)
        \/ x = "b" /\ StableBoth(S, r, c)
        \/ x = "c" /\ StableNone(S, r, c)
        \/ x = "d" /\ StableXiOnly(S, r, c)}

Cells == (0..(2 * args.nmax - 1)) \X (0..(args.nmax - 1))

FnFlag(q) == At(Tables.test_fn, q[1], q[2]) > 0
XiFlag(q) == At(Tables.test_xi, q[1], q[2]) > 0

\* C15 as stated: a cell is in the stable-frequency/stable-damping class iff
\* test_fn > 0 and test_xi > 0, every cell is in exactly one class, and the
\* class is determined by the two flags.
C15_AsStated ==
    StabReturned =>
        /\ \A q \in Cells :
              /\ StableBoth(Tables, q[1], q[2]) <=> (FnFlag(q) /\ XiFlag(q))
              /\ Cardinality(ClassesOf(Tables, q[1], q[2])) = 1
        /\ \A q1, q2 \in Cells :
              (FnFlag(q1) = FnFlag(q2) /\ XiFlag(q1) = XiFlag(q2))
                 => ClassesOf(Tables, q1[1], q1[2])
                        = ClassesOf(Tables, q2[1], q2[2])

\* C15 amended: a cell is in the stable-frequency/stable-damping class iff
\* test_fn > 0, test_xi > 0 and its damping xi_temp is positive; every cell
\* is in exactly one class, and the class is determined by test_fn > 0 and
\* by (test_xi > 0 and xi_temp > 0).
C15_Classes ==
    StabReturned =>
        /\ \A q \in Cells :
              /\ StableBoth(Tables, q[1], q[2])
                    <=> /\ FnFlag(q) /\ XiFlag(q)
                        /\ At(Tables.xi_temp, q[1], q[2]) > 0
              /\ "b" \in ClassesOf(Tables, q[1], q[2])
                    <=> /\ FnFlag(q) /\ XiFlag(q)
                        /\ At(Tables.xi_temp, q[1], q[2]) > 0
              /\ Cardinality(ClassesOf(Tables, q[1], q[2])) = 1
        /\ \A q1, q2 \in Cells :
              (/\ FnFlag(q1) = FnFlag(q2)
               /\ (XiFlag(q1) /\ At(Tables.xi_temp, q1[1], q1[2]) > 0)
                     = (XiFlag(q2) /\ At(Tables.xi_temp, q2[1], q2[2]) > 0))
                 => ClassesOf(Tables, q1[1], q1[2])
                        = ClassesOf(Tables, q2[1], q2[2])

\* C15 witness: the returned tables have a cell of each of the four classes,
\* and a cell with both flags set and a negative damping, which is plotted
\* as stable frequency, unstable damping
C15_Witness ==
    /\ StabReturned
    /\ \A x \in {"a", "b", "c", "d"} :
          \E q \in Cells : ClassesOf(Tables, q[1], q[2]) = {x}
    /\ \E q \in Cells :
          /\ FnFlag(q) /\ XiFlag(q)
          /\ At(Tables.xi_temp, q[1], q[2]) < 0
          /\ ClassesOf(Tables, q[1], q[2]) = {"a"}

----------------------------------------------------------------------------
(* Claims about the search-window half-widths, checked under SpecWin *)

WinDerived == op.name = "f_windows" /\ exc = ""

\* C16 as stated: the half-widths are a decreasing sequence of the quotients
\* f_window/k for successive integers k from 2 on, each exceeding 3,
\* followed by a final 2, and the sequence is never empty.
C16_AsStated ==
    WinDerived =>
        LET w == ret.items
            n == Len(w)
        IN  /\ n >= 1
            /\ w[n] = 2
            /\ \A j \in 1..(n - 1) :
                  /\ w[j] * (j + 1) = args.f_window
                  /\ w[j] > 3
                  /\ w[j] > w[j + 1]

\* C16 amended: the half-widths are the integer (floor) quotients
\* f_window // k for k = 2, 3, ... up to at most 99, as long as the quotient
\* exceeds 3, in non-increasing order, followed by a final 2; the sequence
\* is never empty.
C16_HalfWidths ==
    WinDerived =>
        LET w == ret.items
            n == Len(w)
        IN  /\ n >= 1
            /\ n <= 99
            /\ w[n] = 2
            /\ \A j \in 1..(n - 1) :
                  /\ w[j] = args.f_window \div (j + 1)
                  /\ w[j] > 3
                  /\ w[j] >= w[j + 1]
            /\ n < 99 => args.f_window \div (n + 1) <= 3

\* C16 witness: f_window = 50 gives floor quotients with repeated values
C16_Witness ==
    /\ WinDerived
    /\ args.f_window = 50
    /\ ret.items = <<25, 16, 12, 10, 8, 7, 6, 5, 5, 4, 4, 2>>

====
